---- MODULE Spec2Model ----
(***************************************************************************)
(* A model of the courses application: the relational rows (Course,        *)
(* Module, Content and the concrete item tables), OrderField.pre_save and  *)
(* the views of courses/views.py.  One action is one completed request.    *)
(* A Course and an item stand for their editable form fields by `title`; a *)
(* blank title is the form data that fails validation.  Module rows carry  *)
(* the two fields the views decide on, course and order.                   *)
(***************************************************************************)
EXTENDS Integers, FiniteSets, Sequences, TLC

\* ---------------------------------------------------------------- bounds
MaxCourses == 2     \* course ids handed out: 1..MaxCourses
MaxModules == 3     \* module ids handed out: 1..MaxModules
MaxParents == 2     \* modules created where contents are created too
MaxContents == 2    \* content ids handed out: 1..MaxContents
MaxItems == 1       \* item ids handed out per concrete table: 1..MaxItems
MaxOrder == 1       \* explicit order values a caller submits: 0..MaxOrder
MaxExtra == 2       \* new module forms in one formset submission

\* ------------------------------------------------------------ identities
Users == {"u1", "u2"}
AnonymousUser == "anon"
Identities == Users \cup {AnonymousUser}
NoUser == "none"            \* owner of a form instance not yet stamped
NoOrder == -1               \* order attribute unset (Python None)
NoId == 0                   \* optional url argument id not given
CoursePerms == {"add_course", "view_course", "change_course", "delete_course"}
Titles == {"t1", "t2"}
FormTitles == Titles \cup {""}
ItemModels == {"text", "video", "image", "file"}
ModelNames == {"text", "image", "quiz"}   \* type names requests are made with
Savers == {"s1", "s2"}
Reorderers == {"r1", "r2"}

VARIABLES
    perms,        \* user -> permissions held on Course
    courses,      \* Course rows: id -> [owner, title]
    nextCourse,   \* next Course id (auto-increment)
    modules,      \* Module rows: id -> [course, order]
    nextModule,
    contents,     \* Content rows: id -> [module, content_type, object_id, order]
    nextContent,
    items,        \* Text/Video/Image/File rows: <<model, id>> -> [owner, title]
    nextItem,     \* model -> next id of that table
    request,      \* the request last served: [view, user, ids], ids the row ids it names
    response,     \* its response: [status, courses, saved]
    pending,      \* saver -> a Module.save() between its read and its write
    reordering    \* reorderer -> a reorder request between two of its updates

vars == <<perms, courses, nextCourse, modules, nextModule, contents, nextContent,
          items, nextItem, request, response, pending, reordering>>

db == <<courses, nextCourse, modules, nextModule, contents, nextContent, items, nextItem>>

Idle == [pc |-> "idle", course |-> 0, order |-> NoOrder]

NoReorder == [pc |-> "idle", view |-> "", user |-> NoUser, M |-> <<>>, todo |-> {}]

Init ==
    /\ perms \in {[u \in Users |-> CoursePerms],
                 [u \in Users |-> IF u = "u1" THEN CoursePerms ELSE {"view_course"}]}
    /\ courses = <<>>
    /\ nextCourse = 1
    /\ modules = <<>>
    /\ nextModule = 1
    /\ contents = <<>>
    /\ nextContent = 1
    /\ items = <<>>
    /\ nextItem = [m \in ItemModels |-> 1]
    /\ request = [view |-> "", user |-> NoUser, ids |-> {}]
    /\ response = [status |-> "", courses |-> {}, saved |-> ""]
    /\ pending = [p \in Savers |-> Idle]
    /\ reordering = [p \in Reorderers |-> NoReorder]

\* ------------------------------------------------------------- helpers
Max(S) == CHOOSE x \in S : \A y \in S : y <= x

Drop(rows, gone) == [i \in DOMAIN rows \ gone |-> rows[i]]

\* pre_save with the number of sibling rows taken for the next order.
pre_save_count(rows, field, inst) ==
    IF inst.order = NoOrder
    THEN Cardinality({i \in DOMAIN rows : rows[i][field] = inst[field]})
    ELSE inst.order

\* pre_save with for_fields ignored: the maximum is taken over the whole table.
pre_save_unscoped(rows, field, inst) ==
    IF inst.order = NoOrder
    THEN IF DOMAIN rows = {} THEN 0
         ELSE Max({rows[i].order : i \in DOMAIN rows}) + 1
    ELSE inst.order

\* OrderField.pre_save: the value stored for the order attribute of `inst`
\* saved into table `rows`, scoped by the for_fields attribute `field`.
pre_save(rows, field, inst) ==
    IF inst.order = NoOrder
    THEN LET qs == {i \in DOMAIN rows : rows[i][field] = inst[field]}
         IN  IF qs = {} THEN 0
             ELSE Max({rows[i].order : i \in qs}) + 1
    ELSE inst.order

\* Model.save() of a new row: pre_save, then INSERT under the next id.
SaveNew(rows, id, field, inst) ==
    rows @@ (id :> [inst EXCEPT !.order = pre_save(rows, field, inst)])

Respond(view, u, ids, status) ==
    /\ request' = [view |-> view, user |-> u, ids |-> ids]
    /\ response' = [status |-> status, courses |-> {}, saved |-> ""]

\* ------------------------------------------------- ownership-scoped CRUD
is_authenticated(u) == u # AnonymousUser

has_perm(u, p) == u \in Users /\ p \in perms[u]

\* LoginRequiredMixin.dispatch, then PermissionRequiredMixin.dispatch.
OwnerCourseDispatch(u, p) ==
    IF ~is_authenticated(u) THEN "login"
    ELSE IF ~has_perm(u, p) THEN "403"
    ELSE "ok"

get_queryset_unfiltered(u) == DOMAIN courses

\* OwnerMixin.get_queryset
get_queryset(u) == {pk \in DOMAIN courses : courses[pk].owner = u}

form_valid_unstamped(inst, u) == inst

\* OwnerEditMixin.form_valid
form_valid(inst, u) == [inst EXCEPT !.owner = u]

ManageCourseListView(u) ==
    LET d == OwnerCourseDispatch(u, "view_course") IN
    /\ request' = [view |-> "course_list", user |-> u, ids |-> {}]
    /\ response' = IF d = "ok"
                   THEN [status |-> "200", courses |-> get_queryset(u), saved |-> ""]
                   ELSE [status |-> d, courses |-> {}, saved |-> ""]
    /\ UNCHANGED <<db, perms, pending, reordering>>

CourseCreateView(u, title) ==
    LET d == OwnerCourseDispatch(u, "add_course") IN
    IF d # "ok" THEN
        /\ Respond("course_create", u, {}, d)
        /\ UNCHANGED <<db, perms, pending, reordering>>
    ELSE IF title = "" THEN
        /\ Respond("course_create", u, {}, "200")
        /\ UNCHANGED <<db, perms, pending, reordering>>
    ELSE
        /\ nextCourse <= MaxCourses
        /\ courses' = courses @@
              (nextCourse :> form_valid([owner |-> NoUser, title |-> title], u))
        /\ nextCourse' = nextCourse + 1
        /\ Respond("course_create", u, {}, "302")
        /\ UNCHANGED <<modules, nextModule, contents, nextContent, items, nextItem,
                       perms, pending, reordering>>

CourseUpdateView(u, pk, title) ==
    LET d == OwnerCourseDispatch(u, "change_course") IN
    IF d # "ok" THEN
        /\ Respond("course_edit", u, {pk}, d)
        /\ UNCHANGED <<db, perms, pending, reordering>>
    ELSE IF pk \notin get_queryset(u) THEN
        /\ Respond("course_edit", u, {pk}, "404")
        /\ UNCHANGED <<db, perms, pending, reordering>>
    ELSE IF title = "" THEN
        /\ Respond("course_edit", u, {pk}, "200")
        /\ UNCHANGED <<db, perms, pending, reordering>>
    ELSE
        /\ courses' = [courses EXCEPT ![pk] = form_valid([@ EXCEPT !.title = title], u)]
        /\ Respond("course_edit", u, {pk}, "302")
        /\ UNCHANGED <<nextCourse, modules, nextModule, contents, nextContent, items,
                       nextItem, perms, pending, reordering>>

\* Content rows left behind by the delete of their module.
ContentsOf_kept(ms) == {}

\* on_delete=CASCADE: Module.course and Content.module.
ModulesOf(cs) == {m \in DOMAIN modules : modules[m].course \in cs}
ContentsOf(ms) == {c \in DOMAIN contents : contents[c].module \in ms}

CourseDeleteView(u, pk) ==
    LET d == OwnerCourseDispatch(u, "delete_course") IN
    IF d # "ok" THEN
        /\ Respond("course_delete", u, {pk}, d)
        /\ UNCHANGED <<db, perms, pending, reordering>>
    ELSE IF pk \notin get_queryset(u) THEN
        /\ Respond("course_delete", u, {pk}, "404")
        /\ UNCHANGED <<db, perms, pending, reordering>>
    ELSE
        /\ courses' = Drop(courses, {pk})
        /\ modules' = Drop(modules, ModulesOf({pk}))
        /\ contents' = Drop(contents, ContentsOf(ModulesOf({pk})))
        /\ Respond("course_delete", u, {pk}, "302")
        /\ UNCHANGED <<nextCourse, nextModule, nextContent, items, nextItem, perms, pending, reordering>>

\* ---------------------------------------------------- module formset editor
\* get_object_or_404(Course, id=pk, owner=request.user).  The view has no login
\* mixin: for the anonymous identity the owner lookup cannot be built from
\* request.user and the request ends in a server error.
CourseOr404(pk, u) ==
    IF ~is_authenticated(u) THEN "500"
    ELSE IF pk \in DOMAIN courses /\ courses[pk].owner = u THEN "ok"
    ELSE "404"

\* get_object_or_404(Module, id=module_id, course__owner=request.user)
ModuleOr404(module_id, u) ==
    IF ~is_authenticated(u) THEN "500"
    ELSE IF /\ module_id \in DOMAIN modules
            /\ modules[module_id].course \in DOMAIN courses
            /\ courses[modules[module_id].course].owner = u THEN "ok"
    ELSE "404"

\* formset.save(): the new forms, saved one after another without an order.
RECURSIVE AddModules(_, _, _, _)
AddModules(rows, id, c, k) ==
    IF k = 0 THEN rows
    ELSE AddModules(SaveNew(rows, id, "course", [course |-> c, order |-> NoOrder]),
                    id + 1, c, k - 1)

\* formset.save(): the forms marked for deletion are deleted, then the new
\* forms are saved.
FormSetSave(c, del, nadd) ==
    /\ modules' = AddModules(Drop(modules, del), nextModule, c, nadd)
    /\ nextModule' = nextModule + nadd
    /\ contents' = Drop(contents, ContentsOf(del))

CourseModuleUpdateView(u, pk, del, nadd, valid) ==
    LET found == CourseOr404(pk, u) IN
    IF found # "ok" THEN
        /\ del = {} /\ nadd = 0 /\ valid
        /\ Respond("course_module_update", u, {pk}, found)
        /\ UNCHANGED <<db, perms, pending, reordering>>
    ELSE IF ~valid THEN
        /\ del = {} /\ nadd = 0
        /\ Respond("course_module_update", u, {pk}, "200")
        /\ UNCHANGED <<db, perms, pending, reordering>>
    ELSE
        /\ del \subseteq ModulesOf({pk})
        /\ nextModule + nadd <= MaxModules + 1
        /\ FormSetSave(pk, del, nadd)
        /\ Respond("course_module_update", u, {pk}, "302")
        /\ UNCHANGED <<courses, nextCourse, nextContent, items, nextItem, perms, pending, reordering>>

\* The admin's ModuleInline under a Course: a Module saved with the order the
\* admin form carries, blank (unset) or explicit.
ModuleInline(c, ord) ==
    /\ c \in DOMAIN courses
    /\ nextModule <= MaxModules
    /\ modules' = SaveNew(modules, nextModule, "course", [course |-> c, order |-> ord])
    /\ nextModule' = nextModule + 1
    /\ Respond("admin", "staff", {c}, "302")
    /\ UNCHANGED <<courses, nextCourse, contents, nextContent, items, nextItem, perms, pending, reordering>>

\* ------------------------------------------------------- module contents
get_model_default(model_name) ==
    IF model_name \in {"text", "video", "image", "file"} THEN model_name ELSE "text"

\* ContentCreateUpdateView.get_model
get_model(model_name) ==
    IF model_name \in {"text", "video", "image", "file"} THEN model_name ELSE "None"

\* The item looked up by id alone, whoever owns it.
ItemOr404_any_owner(model, id, u) ==
    IF model = "None" THEN "500"
    ELSE IF <<model, id>> \in DOMAIN items THEN "ok"
    ELSE "404"

\* get_object_or_404(self.model, id=id, owner=request.user); a model of None
\* is rejected by get_object_or_404 with an exception.
ItemOr404(model, id, u) ==
    IF model = "None" THEN "500"
    ELSE IF <<model, id>> \in DOMAIN items /\ items[<<model, id>>].owner = u THEN "ok"
    ELSE "404"

\* ContentCreateUpdateView.dispatch: "ok", or the status the request ends with.
ContentDispatch(u, module_id, model_name, id) ==
    LET found == ModuleOr404(module_id, u) IN
    IF found # "ok" THEN found
    ELSE IF id # NoId THEN ItemOr404(get_model(model_name), id, u)
    ELSE "ok"

\* Content.objects.create(module=module, item=obj)
ContentCreate(module_id, model, id) ==
    SaveNew(contents, nextContent, "module",
            [module |-> module_id, content_type |-> model, object_id |-> id,
             order |-> NoOrder])

IsNew_always(id) == TRUE

\* ContentCreateUpdateView.post: `if not id`, a new item gets its Content row.
IsNew(id) == id = NoId

\* obj.save() of the form's instance: self.obj, fetched in dispatch when an id
\* was given, is updated; without one a row of the model is inserted.
SaveItem(model, id, u, title) ==
    IF id # NoId
    THEN [items EXCEPT ![<<model, id>>] = [owner |-> u, title |-> title]]
    ELSE items @@ (<<model, nextItem[model]>> :> [owner |-> u, title |-> title])

ContentCreateUpdateView(u, module_id, model_name, id, title) ==
    LET d == ContentDispatch(u, module_id, model_name, id)
        model == get_model(model_name)
        pk == IF id # NoId THEN id ELSE nextItem[model]
    IN
    IF d # "ok" THEN
        /\ title = ""
        /\ Respond("module_content", u, {module_id}, d)
        /\ UNCHANGED <<db, perms, pending, reordering>>
    ELSE IF model = "None" THEN      \* get_form: a ModelForm without a model class
        /\ title = ""
        /\ Respond("module_content", u, {module_id}, "500")
        /\ UNCHANGED <<db, perms, pending, reordering>>
    ELSE IF title = "" THEN
        /\ Respond("module_content", u, {module_id}, "200")
        /\ UNCHANGED <<db, perms, pending, reordering>>
    ELSE
        /\ id = NoId => nextItem[model] <= MaxItems
        /\ IsNew(id) => nextContent <= MaxContents
        /\ items' = SaveItem(model, id, u, title)
        /\ nextItem' = IF id = NoId THEN [nextItem EXCEPT ![model] = @ + 1] ELSE nextItem
        /\ contents' = IF IsNew(id) THEN ContentCreate(module_id, model, pk) ELSE contents
        /\ nextContent' = IF IsNew(id) THEN nextContent + 1 ELSE nextContent
        /\ Respond("module_content", u, {module_id}, "302")
        /\ UNCHANGED <<courses, nextCourse, modules, nextModule, perms, pending, reordering>>

\* get_object_or_404(Content, id=id, module__course__owner=request.user)
ContentOr404(id, u) ==
    IF ~is_authenticated(u) THEN "500"
    ELSE IF /\ id \in DOMAIN contents
            /\ contents[id].module \in DOMAIN modules
            /\ modules[contents[id].module].course \in DOMAIN courses
            /\ courses[modules[contents[id].module].course].owner = u THEN "ok"
    ELSE "404"

ItemKey_text(c) == <<"text", c.object_id>>

\* Content.item: the row the (content_type, object_id) pair names
ItemKey(c) == <<c.content_type, c.object_id>>

ContentDeleteView(u, id) ==
    LET found == ContentOr404(id, u) IN
    IF found # "ok" THEN
        /\ Respond("module_content_delete", u, {id}, found)
        /\ UNCHANGED <<db, perms, pending, reordering>>
    ELSE IF ItemKey(contents[id]) \notin DOMAIN items THEN   \* content.item is None
        /\ Respond("module_content_delete", u, {id}, "500")
        /\ UNCHANGED <<db, perms, pending, reordering>>
    ELSE
        /\ items' = Drop(items, {ItemKey(contents[id])})
        /\ contents' = Drop(contents, {id})
        /\ Respond("module_content_delete", u, {id}, "302")
        /\ UNCHANGED <<courses, nextCourse, modules, nextModule, nextContent, nextItem,
                       perms, pending, reordering>>

ModuleContentListView(u, module_id) ==
    /\ Respond("module_content_list", u, {module_id},
               IF ModuleOr404(module_id, u) = "ok" THEN "200" ELSE ModuleOr404(module_id, u))
    /\ UNCHANGED <<db, perms, pending, reordering>>

\* ------------------------------------------------------ reorder endpoints
\* update() run on every matching row, the rows the mapping does not name
\* set to 0.
UpdateOrders_owned(rows, M, match) ==
    [i \in DOMAIN rows |->
        IF i \in match THEN [rows[i] EXCEPT !.order = IF i \in DOMAIN M THEN M[i] ELSE 0]
        ELSE rows[i]]

\* QuerySet.update(order=order) on the rows of `rows` in `match`, for every
\* entry of the mapping; the entries have distinct ids.
UpdateOrders(rows, M, match) ==
    [i \in DOMAIN rows |->
        IF i \in DOMAIN M /\ i \in match THEN [rows[i] EXCEPT !.order = M[i]] ELSE rows[i]]

OwnedModules_any(u) == DOMAIN modules

OwnedModules(u) ==
    {m \in DOMAIN modules : /\ modules[m].course \in DOMAIN courses
                            /\ courses[modules[m].course].owner = u}

OwnedContents(u) == {c \in DOMAIN contents : contents[c].module \in OwnedModules(u)}

Mappings(ids) == UNION {[D -> 0..MaxOrder] : D \in SUBSET ids}

ModuleOrderView(u, M) ==
    IF ~is_authenticated(u) /\ DOMAIN M # {} THEN
        /\ Respond("module_order", u, DOMAIN M, "500")
        /\ UNCHANGED <<db, perms, pending, reordering>>
    ELSE
        /\ modules' = UpdateOrders(modules, M, OwnedModules(u))
        /\ request' = [view |-> "module_order", user |-> u, ids |-> DOMAIN M]
        /\ response' = [status |-> "200", courses |-> {}, saved |-> "OK"]
        /\ UNCHANGED <<courses, nextCourse, nextModule, contents, nextContent, items,
                       nextItem, perms, pending, reordering>>

ContentOrderView(u, M) ==
    IF ~is_authenticated(u) /\ DOMAIN M # {} THEN
        /\ Respond("content_order", u, DOMAIN M, "500")
        /\ UNCHANGED <<db, perms, pending, reordering>>
    ELSE
        /\ contents' = UpdateOrders(contents, M, OwnedContents(u))
        /\ request' = [view |-> "content_order", user |-> u, ids |-> DOMAIN M]
        /\ response' = [status |-> "200", courses |-> {}, saved |-> "OK"]
        /\ UNCHANGED <<courses, nextCourse, modules, nextModule, nextContent, items,
                       nextItem, perms, pending, reordering>>

\* ------------------------------------------- two Module saves in flight
\* Module.save() of a new row taken in its two steps: pre_save reads the
\* table and sets the attribute (BeginSave), the INSERT writes the row
\* (CommitSave).  Nothing is held between the two.
InsertRow_locked(rows, id, inst) ==
    SaveNew(rows, id, "course", [inst EXCEPT !.order = NoOrder])

InsertRow(rows, id, inst) == rows @@ (id :> inst)

BeginSave(p, c) ==
    /\ pending[p].pc = "idle"
    /\ c \in DOMAIN courses
    /\ pending' = [pending EXCEPT ![p] =
          [pc |-> "read", course |-> c,
           order |-> pre_save(modules, "course", [course |-> c, order |-> NoOrder])]]
    /\ UNCHANGED <<db, perms, request, response, reordering>>

CommitSave(p) ==
    /\ pending[p].pc = "read"
    /\ nextModule <= MaxModules
    /\ modules' = InsertRow(modules, nextModule,
                            [course |-> pending[p].course, order |-> pending[p].order])
    /\ nextModule' = nextModule + 1
    /\ pending' = [pending EXCEPT ![p] = Idle]
    /\ UNCHANGED <<courses, nextCourse, contents, nextContent, items, nextItem, perms,
                   request, response, reordering>>

\* ---------------------------------------- two reorder requests in flight
\* A reorder post taken update by update: the for loop runs one
\* filter(...).update(order=order) per entry of request_json, each a statement
\* of its own that the database commits before the next one runs (no
\* transaction.atomic in the view).  Nothing is held between two passes.
WriteOne_batch(rows, M, id, match) == UpdateOrders(rows, M, match)

\* One pass of the loop: the update for the entry id -> M[id].
WriteOne(rows, M, id, match) == UpdateOrders(rows, [i \in {id} |-> M[i]], match)

\* The request arrives: request_json is parsed and the loop is entered.
BeginReorder(p, view, u, M) ==
    /\ reordering[p].pc = "idle"
    /\ reordering' = [reordering EXCEPT ![p] =
          [pc |-> "loop", view |-> view, user |-> u, M |-> M, todo |-> DOMAIN M]]
    /\ UNCHANGED <<db, perms, pending, request, response>>

\* One pass for an entry not yet taken; the entries come in the order the
\* request body lists them, which the client chooses.  For the anonymous
\* identity the owner filter cannot be built and the request ends there.
StepReorder(p, id) ==
    LET r == reordering[p] IN
    /\ r.pc = "loop"
    /\ id \in r.todo
    /\ IF ~is_authenticated(r.user) THEN
           /\ reordering' = [reordering EXCEPT ![p].pc = "done"]
           /\ Respond(r.view, r.user, DOMAIN r.M, "500")
           /\ UNCHANGED <<db, perms, pending>>
       ELSE
           /\ reordering' = [reordering EXCEPT ![p].todo = @ \ {id}]
           /\ IF r.view = "module_order"
              THEN /\ modules' = WriteOne(modules, r.M, id, OwnedModules(r.user))
                   /\ UNCHANGED contents
              ELSE /\ contents' = WriteOne(contents, r.M, id, OwnedContents(r.user))
                   /\ UNCHANGED modules
           /\ UNCHANGED <<courses, nextCourse, nextModule, nextContent, items, nextItem,
                          perms, pending, request, response>>

\* The loop is over: render_json_response({'saved': 'OK'}).
EndReorder(p) ==
    LET r == reordering[p] IN
    /\ r.pc = "loop"
    /\ r.todo = {}
    /\ reordering' = [reordering EXCEPT ![p].pc = "done"]
    /\ request' = [view |-> r.view, user |-> r.user, ids |-> DOMAIN r.M]
    /\ response' = [status |-> "200", courses |-> {}, saved |-> "OK"]
    /\ UNCHANGED <<db, perms, pending>>

\* ------------------------------------------------------- specifications
\* The whole application: every request by every identity, and Module saves
\* taken in their two steps.  The specifications after it restrict Next to
\* the requests that bear on one group of properties.
Next ==
    \/ \E u \in Identities : ManageCourseListView(u)
    \/ \E u \in Identities, t \in FormTitles : CourseCreateView(u, t)
    \/ \E u \in Identities, pk \in 1..MaxCourses, t \in FormTitles : CourseUpdateView(u, pk, t)
    \/ \E u \in Identities, pk \in 1..MaxCourses : CourseDeleteView(u, pk)
    \/ \E u \in Identities, pk \in 1..MaxCourses, del \in SUBSET (1..MaxModules),
          nadd \in 0..MaxExtra, valid \in BOOLEAN :
            CourseModuleUpdateView(u, pk, del, nadd, valid)
    \/ \E c \in 1..MaxCourses, ord \in {NoOrder} \cup 0..MaxOrder : ModuleInline(c, ord)
    \/ \E u \in Identities, m \in 1..MaxModules, n \in ModelNames, id \in 0..MaxItems,
          t \in FormTitles : ContentCreateUpdateView(u, m, n, id, t)
    \/ \E u \in Identities, id \in 1..MaxContents : ContentDeleteView(u, id)
    \/ \E u \in Identities, m \in 1..MaxModules : ModuleContentListView(u, m)
    \/ \E u \in Identities, M \in Mappings(1..MaxModules) : ModuleOrderView(u, M)
    \/ \E u \in Identities, M \in Mappings(1..MaxContents) : ContentOrderView(u, M)
    \/ \E p \in Savers, c \in 1..MaxCourses : BeginSave(p, c)
    \/ \E p \in Savers : CommitSave(p)
    \/ \E p \in Reorderers, u \in Identities, M \in Mappings(1..MaxModules) :
          BeginReorder(p, "module_order", u, M)
    \/ \E p \in Reorderers, u \in Identities, M \in Mappings(1..MaxContents) :
          BeginReorder(p, "content_order", u, M)
    \/ \E p \in Reorderers, id \in 1..MaxModules \cup 1..MaxContents : StepReorder(p, id)
    \/ \E p \in Reorderers : EndReorder(p)

Spec == Init /\ [][Next]_vars

\* The course views alone.
NextCourse ==
    \/ \E u \in Identities : ManageCourseListView(u)
    \/ \E u \in Identities, t \in FormTitles : CourseCreateView(u, t)
    \/ \E u \in Identities, pk \in 1..MaxCourses, t \in FormTitles : CourseUpdateView(u, pk, t)
    \/ \E u \in Identities, pk \in 1..MaxCourses : CourseDeleteView(u, pk)

SpecCourse == Init /\ [][NextCourse]_vars

\* The course views are left out: courses are created, and modules are
\* created, deleted and reordered, by authenticated users.
NextModule ==
    \/ \E u \in Users : CourseCreateView(u, "t1")
    \/ \E u \in Users, pk \in 1..MaxCourses, del \in SUBSET (1..MaxModules),
          nadd \in 0..MaxExtra : CourseModuleUpdateView(u, pk, del, nadd, TRUE)
    \/ \E c \in 1..MaxCourses, ord \in {NoOrder} \cup 0..MaxOrder : ModuleInline(c, ord)
    \/ \E u \in Users, M \in Mappings(1..MaxModules) : ModuleOrderView(u, M)

SpecModule == Init /\ [][NextModule]_vars

\* Rows that carry an order: modules and contents are created and reordered
\* by authenticated users, MaxParents modules at most.
NextOrder ==
    \/ \E u \in Users : CourseCreateView(u, "t1")
    \/ \E u \in Users, pk \in 1..MaxCourses, del \in SUBSET (1..MaxParents),
          nadd \in 0..MaxExtra :
            /\ nextModule + nadd <= MaxParents + 1
            /\ CourseModuleUpdateView(u, pk, del, nadd, TRUE)
    \/ \E c \in 1..MaxCourses, ord \in {NoOrder} \cup 0..MaxOrder :
            /\ nextModule <= MaxParents
            /\ ModuleInline(c, ord)
    \/ \E u \in Users, m \in 1..MaxParents, n \in ItemModels \cap ModelNames :
          ContentCreateUpdateView(u, m, n, NoId, "t1")
    \/ \E u \in Users, M \in Mappings(1..MaxParents) : ModuleOrderView(u, M)
    \/ \E u \in Users, M \in Mappings(1..MaxContents) : ContentOrderView(u, M)

SpecOrder == Init /\ [][NextOrder]_vars

\* Contents and their items: courses and modules are created, contents are
\* created, updated and deleted, courses are deleted.
NextContent ==
    \/ \E u \in Users : CourseCreateView(u, "t1")
    \/ \E c \in 1..MaxCourses : nextModule <= MaxParents /\ ModuleInline(c, NoOrder)
    \/ \E u \in Identities, m \in 1..MaxParents, n \in ModelNames, id \in 0..MaxItems,
          t \in FormTitles : ContentCreateUpdateView(u, m, n, id, t)
    \/ \E u \in Users, id \in 1..MaxContents : ContentDeleteView(u, id)
    \/ \E u \in Users, pk \in 1..MaxCourses : CourseDeleteView(u, pk)

SpecContent == Init /\ [][NextContent]_vars

\* Every endpoint requested without a session, over rows authenticated users
\* have created.
NextAnonymous ==
    \/ \E u \in Users : CourseCreateView(u, "t1")
    \/ \E c \in 1..MaxCourses : nextModule <= MaxParents /\ ModuleInline(c, NoOrder)
    \/ \E u \in Users, m \in 1..MaxParents, n \in ItemModels \cap ModelNames :
          ContentCreateUpdateView(u, m, n, NoId, "t1")
    \/ ManageCourseListView(AnonymousUser)
    \/ \E t \in FormTitles : CourseCreateView(AnonymousUser, t)
    \/ \E pk \in 1..MaxCourses, t \in FormTitles : CourseUpdateView(AnonymousUser, pk, t)
    \/ \E pk \in 1..MaxCourses : CourseDeleteView(AnonymousUser, pk)
    \/ \E pk \in 1..MaxCourses, del \in SUBSET (1..MaxModules), nadd \in 0..MaxExtra,
          valid \in BOOLEAN : CourseModuleUpdateView(AnonymousUser, pk, del, nadd, valid)
    \/ \E m \in 1..MaxModules, n \in ModelNames, id \in 0..MaxItems, t \in FormTitles :
          ContentCreateUpdateView(AnonymousUser, m, n, id, t)
    \/ \E id \in 1..MaxContents : ContentDeleteView(AnonymousUser, id)
    \/ \E m \in 1..MaxModules : ModuleContentListView(AnonymousUser, m)
    \/ \E M \in Mappings(1..MaxModules) : ModuleOrderView(AnonymousUser, M)
    \/ \E M \in Mappings(1..MaxContents) : ContentOrderView(AnonymousUser, M)

SpecAnonymous == Init /\ [][NextAnonymous]_vars

\* Module saves that overlap: each saver reads, then writes.
NextRace ==
    \/ \E u \in Users : CourseCreateView(u, "t1")
    \/ \E p \in Savers, c \in 1..MaxCourses : BeginSave(p, c)
    \/ \E p \in Savers : CommitSave(p)

SpecRace == Init /\ [][NextRace]_vars

\* Reorder requests that overlap, each naming rows that exist, while users
\* build courses, modules and contents.
NextReorder ==
    \/ \E u \in Users : CourseCreateView(u, "t1")
    \/ \E c \in 1..MaxCourses : nextModule <= MaxParents /\ ModuleInline(c, NoOrder)
    \/ \E u \in Users, m \in 1..MaxParents : ContentCreateUpdateView(u, m, "text", NoId, "t1")
    \/ \E p \in Reorderers, u \in Users, M \in Mappings(DOMAIN modules) :
          BeginReorder(p, "module_order", u, M)
    \/ \E p \in Reorderers, u \in Users, M \in Mappings(DOMAIN contents) :
          BeginReorder(p, "content_order", u, M)
    \/ \E p \in Reorderers, id \in 1..MaxParents \cup 1..MaxContents : StepReorder(p, id)
    \/ \E p \in Reorderers : EndReorder(p)

SpecReorder == Init /\ [][NextReorder]_vars

\* The requests of the manage pages, each served to its end before the next,
\* all by authenticated users: courses are created, edited and deleted,
\* modules are added under them, contents are created, updated and deleted,
\* and the modules and the contents are reordered, every id named at once.
\* Every user holds the four course permissions.
NextRequests ==
    \/ \E u \in Users : CourseCreateView(u, "t1")
    \/ \E u \in Users, pk \in 1..MaxCourses : CourseUpdateView(u, pk, "t2")
    \/ \E u \in Users, pk \in 1..MaxCourses : CourseDeleteView(u, pk)
    \/ \E c \in 1..MaxCourses : nextModule <= MaxParents /\ ModuleInline(c, NoOrder)
    \/ \E u \in Users, m \in 1..MaxParents, n \in ItemModels \cap ModelNames :
          ContentCreateUpdateView(u, m, n, NoId, "t1")
    \/ \E u \in Users, m \in 1..MaxParents, n \in ItemModels \cap ModelNames,
          id \in 1..MaxItems : ContentCreateUpdateView(u, m, n, id, "t2")
    \/ \E u \in Users, id \in 1..MaxContents : ContentDeleteView(u, id)
    \/ \E u \in Users : ModuleOrderView(u, [i \in 1..MaxParents |-> MaxOrder])
    \/ \E u \in Users : ContentOrderView(u, [i \in 1..MaxContents |-> MaxOrder])

InitRequests == Init /\ perms = [u \in Users |-> CoursePerms]

SpecRequests == InitRequests /\ [][NextRequests]_vars

\* ---------------------------------------------------------------- claims
\* The step serves a request of view `view` by identity u naming the row ids.
Serves(view, u, ids) ==
    /\ request'.view = view
    /\ request'.user = u
    /\ request'.ids = ids

\* C3 as stated: the course list requested by B holds no course B does not own,
\* and an edit or delete request by B for such a course is answered 404 or with
\* the redirect to login, the course and its fields left as they were.
C3_NotFoundOrRedirect ==
    [][\A B \in Identities : \A c \in DOMAIN courses :
          courses[c].owner # B =>
             /\ Serves("course_list", B, {}) => c \notin response'.courses
             /\ (Serves("course_edit", B, {c}) \/ Serves("course_delete", B, {c})) =>
                   /\ response'.status \in {"404", "login"}
                   /\ c \in DOMAIN courses' /\ courses'[c] = courses[c]]_vars

\* C3 amended: as C3, the answer being 404, 403 (an authenticated B without
\* the change/delete permission) or the redirect to login.
C3_ForeignCourseUntouched ==
    [][\A B \in Identities : \A c \in DOMAIN courses :
          courses[c].owner # B =>
             /\ Serves("course_list", B, {}) => c \notin response'.courses
             /\ (Serves("course_edit", B, {c}) \/ Serves("course_delete", B, {c})) =>
                   /\ response'.status \in {"404", "403", "login"}
                   /\ c \in DOMAIN courses' /\ courses'[c] = courses[c]]_vars

\* Both course ids exist and belong to u1; u2, holding every permission, has
\* just asked to edit or delete one and was answered 404.
C3_Witness ==
    /\ DOMAIN courses = 1..MaxCourses
    /\ \A c \in DOMAIN courses : courses[c].owner = "u1"
    /\ perms["u2"] = CoursePerms
    /\ request.user = "u2"
    /\ request.view \in {"course_edit", "course_delete"}
    /\ request.ids \subseteq DOMAIN courses
    /\ response.status = "404"

\* C9: a Course row that appears was created by the course create view and is
\* owned by the requesting identity, and no request changes the owner of a
\* Course row that stays.
C9_OwnerStamped ==
    [][/\ \A pk \in DOMAIN courses' \ DOMAIN courses :
             /\ request'.view = "course_create"
             /\ courses'[pk].owner = request'.user
       /\ \A pk \in DOMAIN courses' \cap DOMAIN courses :
             courses'[pk].owner = courses[pk].owner]_vars

\* Two courses of two owners stand, one of them just edited by its owner.
C9_Witness ==
    /\ request.view = "course_edit"
    /\ response.status = "302"
    /\ \E a, b \in DOMAIN courses :
          /\ request.ids = {a}
          /\ courses[a].owner = request.user
          /\ courses[a].title = "t2"
          /\ courses[b].owner \in Users \ {request.user}

\* The rows of `rows` that were in the table when row i was saved and share
\* its scoping field: ids are handed out in increasing order.
Siblings(rows, i, field) ==
    {j \in DOMAIN rows : j < i /\ rows[j][field] = rows[i][field]}

\* Row i carries 1 + the maximum order of its siblings, or 0 without siblings.
IsNextOrder(rows, i, field) ==
    LET sib == {rows[j].order : j \in Siblings(rows, i, field)} IN
    IF sib = {} THEN rows[i].order = 0
    ELSE /\ rows[i].order - 1 \in sib
         /\ \A o \in sib : o <= rows[i].order - 1

\* The step is the admin inline saving a Module of course c with order ord.
Inline(c, ord) ==
    /\ request'.view = "admin"
    /\ request'.ids = {c}
    /\ ModuleInline(c, ord)

\* C1: a Module or Content row saved with its order unset is written with
\* 1 + the maximum order among the rows of the same course (module), or 0 when
\* there is none; a Module saved with an order set is written with that order.
C1_PreSaveOrder ==
    [][/\ \A c \in 1..MaxCourses, ord \in 0..MaxOrder :
             Inline(c, ord) =>
                /\ DOMAIN modules' = DOMAIN modules \cup {nextModule}
                /\ modules'[nextModule] = [course |-> c, order |-> ord]
       /\ \A c \in 1..MaxCourses :
             Inline(c, NoOrder) =>
                /\ DOMAIN modules' = DOMAIN modules \cup {nextModule}
                /\ modules'[nextModule].course = c
                /\ IsNextOrder(modules', nextModule, "course")
       /\ request'.view # "admin" =>
             \A m \in DOMAIN modules' \ DOMAIN modules : IsNextOrder(modules', m, "course")
       /\ \A k \in DOMAIN contents' \ DOMAIN contents : IsNextOrder(contents', k, "module")
      ]_vars

\* A content was just created in a module whose only other content had been
\* moved to order 1, and took order 2; module 2 took order 2 after module 1 of
\* the same course, saved with the explicit order 1.
C1_Witness ==
    /\ request.view = "module_content" /\ response.status = "302"
    /\ DOMAIN contents = {1, 2}
    /\ contents[1].module = contents[2].module
    /\ contents[1].order = 1 /\ contents[2].order = 2
    /\ DOMAIN modules = {1, 2}
    /\ modules[1].course = modules[2].course
    /\ modules[1].order = 1 /\ modules[2].order = 2

\* The k-th module of course c, in creation sequence, has order k - 1.
Sequential(rows, c) ==
    \A m \in DOMAIN rows :
        rows[m].course = c =>
            rows[m].order = Cardinality({j \in DOMAIN rows : j < m /\ rows[j].course = c})

\* The step deletes and reorders no module of course c, and gives no module
\* of c an explicit order.
Undisturbed(c) ==
    /\ \A m \in ModulesOf({c}) : m \in DOMAIN modules' /\ modules'[m] = modules[m]
    /\ ~\E ord \in 0..MaxOrder : Inline(c, ord)

\* C2: while the modules of a course are created one after another without an
\* explicit order, none of them deleted or reordered, the k-th created carries
\* order k - 1, whatever is created in other courses in between.
C2_SequentialOrders ==
    [][\A c \in 1..MaxCourses :
          (Sequential(modules, c) /\ Undisturbed(c)) => Sequential(modules', c)]_vars

\* Modules 1 and 3 were created in one course and module 2, in between, in
\* another: they carry 0 and 1, and module 2 carries 0.
C2_Witness ==
    /\ DOMAIN modules = {1, 2, 3}
    /\ modules[1].course = modules[3].course
    /\ modules[2].course # modules[1].course
    /\ modules[1].order = 0 /\ modules[3].order = 1 /\ modules[2].order = 0

\* The owner a Module row (a Content row) reaches through its course.
ModuleOwner(m) == courses[modules[m].course].owner
ContentOwner(k) == ModuleOwner(contents[k].module)

\* C5: a reorder request by an authenticated user leaves every row its mapping
\* names and the user does not own as it was, and is answered with the
\* acknowledgement {"saved": "OK"}.
C5_ForeignOrderKept ==
    [][\A u \in Users :
          /\ (request'.view = "module_order" /\ request'.user = u) =>
                /\ response'.status = "200" /\ response'.saved = "OK"
                /\ \A id \in request'.ids \cap DOMAIN modules :
                      ModuleOwner(id) # u =>
                         id \in DOMAIN modules' /\ modules'[id] = modules[id]
          /\ (request'.view = "content_order" /\ request'.user = u) =>
                /\ response'.status = "200" /\ response'.saved = "OK"
                /\ \A id \in request'.ids \cap DOMAIN contents :
                      ContentOwner(id) # u =>
                         id \in DOMAIN contents' /\ contents'[id] = contents[id]]_vars

\* A reorder request has just named a module of its requester and a module of
\* another user, and was acknowledged: the first carries the submitted order,
\* the second the order 0 it was created with.
C5_Witness ==
    /\ request.view = "module_order" /\ response.saved = "OK"
    /\ \E a, b \in request.ids \cap DOMAIN modules :
          /\ ModuleOwner(a) = request.user
          /\ ModuleOwner(b) \in Users \ {request.user}
          /\ modules[a].course # modules[b].course
          /\ modules[a].order = 1 /\ modules[b].order = 0

\* C4 as stated: a request without a session is answered with the redirect to
\* login, whatever the endpoint, and changes no row.
C4_AnonymousRedirected ==
    [][request'.user = AnonymousUser =>
          /\ response'.status = "login"
          /\ db' = db]_vars

\* The item row a Content row references, by its type tag and object id.
ItemOf(k) == <<contents[k].content_type, contents[k].object_id>>

\* C6: a content delete by the owner of the content's course removes the
\* Content row and the item row it references, and nothing else; for an id
\* that does not exist or a content of another user's course the answer is 404
\* and no row is deleted.
C6_ContentDelete ==
    [][\A u \in Users, id \in 1..MaxContents :
          Serves("module_content_delete", u, {id}) =>
             IF id \in DOMAIN contents /\ ContentOwner(id) = u
             THEN /\ response'.status = "302"
                  /\ ItemOf(id) \in DOMAIN items
                  /\ contents' = Drop(contents, {id})
                  /\ items' = Drop(items, {ItemOf(id)})
                  /\ UNCHANGED <<courses, modules>>
             ELSE /\ response'.status = "404"
                  /\ db' = db]_vars

\* A content delete has just succeeded: its content id and the item it
\* referenced are gone, while another content, of the other type and the same
\* object id, stands with its item.
C6_Witness ==
    /\ request.view = "module_content_delete" /\ response.status = "302"
    /\ \E id \in request.ids : id < nextContent /\ id \notin DOMAIN contents
    /\ \E k \in DOMAIN contents :
          /\ ItemOf(k) \in DOMAIN items
          /\ \E n \in ItemModels \ {contents[k].content_type} :
                /\ nextItem[n] > contents[k].object_id
                /\ <<n, contents[k].object_id>> \notin DOMAIN items

\* C7: a content create or update request with a type name outside
\* {text, video, image, file} fails, with 404 or a server error, and creates
\* or modifies no row.
C7_UnknownTypeFails ==
    [][request'.view = "module_content" =>
          \A m \in request'.ids, id \in 0..MaxItems, t \in FormTitles :
          \A n \in ModelNames \ {"text", "video", "image", "file"} :
             ContentCreateUpdateView(request'.user, m, n, id, t) =>
                /\ response'.status \in {"404", "500"}
                /\ db' = db]_vars

\* The owner of a module has just asked for a content of an unknown type in it
\* and the request failed with a server error.
C7_Witness ==
    /\ request.view = "module_content" /\ response.status = "500"
    /\ request.user \in Users
    /\ \E m \in request.ids \cap DOMAIN modules : ModuleOwner(m) = request.user

\* C8: a content request with a valid form and no item id creates exactly one
\* item row and exactly one Content row, linking the requested module to that
\* item, its order the next one in the module; with the id of an existing
\* item it updates that item row and leaves the Content rows as they were.
C8_CreateOrUpdate ==
    [][(request'.view = "module_content" /\ response'.status = "302") =>
          \A u \in {request'.user}, m \in request'.ids, n \in ItemModels, t \in Titles :
             /\ ContentCreateUpdateView(u, m, n, NoId, t) =>
                   /\ DOMAIN items' = DOMAIN items \cup {<<n, nextItem[n]>>}
                   /\ <<n, nextItem[n]>> \notin DOMAIN items
                   /\ \A i \in DOMAIN items : items'[i] = items[i]
                   /\ DOMAIN contents' = DOMAIN contents \cup {nextContent}
                   /\ nextContent \notin DOMAIN contents
                   /\ \A k \in DOMAIN contents : contents'[k] = contents[k]
                   /\ contents'[nextContent].module = m
                   /\ contents'[nextContent].content_type = n
                   /\ contents'[nextContent].object_id = nextItem[n]
                   /\ IsNextOrder(contents', nextContent, "module")
             /\ \A id \in 1..MaxItems :
                   ContentCreateUpdateView(u, m, n, id, t) =>
                      /\ contents' = contents
                      /\ DOMAIN items' = DOMAIN items
                      /\ items'[<<n, id>>] = [owner |-> u, title |-> t]
                      /\ \A i \in DOMAIN items \ {<<n, id>>} : items'[i] = items[i]]_vars

\* An existing item has just been given a new title through the update url,
\* and both Content rows created before stand, orders 0 and 1 in one module.
C8_Witness ==
    /\ request.view = "module_content" /\ response.status = "302"
    /\ DOMAIN contents = {1, 2}
    /\ contents[1].module = contents[2].module
    /\ contents[1].order = 0 /\ contents[2].order = 1
    /\ \E k \in DOMAIN contents : ItemOf(k) \in DOMAIN items /\ items[ItemOf(k)].title = "t2"

\* C10: the row a save writes carries the order its pre_save read, whatever
\* was written to the table since; two overlapping saves of Modules of one
\* course that read the same maximum store the same order.
C10_WritesWhatItRead ==
    [][\A p \in Savers :
          (pending[p].pc = "read" /\ pending'[p].pc = "idle") =>
             /\ DOMAIN modules' = DOMAIN modules \cup {nextModule}
             /\ modules'[nextModule] =
                   [course |-> pending[p].course, order |-> pending[p].order]]_vars

\* Two Module rows of one course carry the same order, no save in flight.
C10_Witness ==
    /\ \A p \in Savers : pending[p].pc = "idle"
    /\ \E a, b \in DOMAIN modules :
          /\ a # b
          /\ modules[a].course = modules[b].course
          /\ modules[a].order = modules[b].order

\* C11: a reorder request by user U with mapping M, served alone, leaves every
\* table with the rows it had; a row whose id is a key of M and that U owns
\* through its course carries order M[id] and its other fields as before, and
\* every other row, in every table, is as it was.
C11_ReorderFrame ==
    [][/\ request'.view = "module_order" =>
             \A M \in [request'.ids -> 0..MaxOrder] :
                ModuleOrderView(request'.user, M) =>
                   /\ DOMAIN modules' = DOMAIN modules
                   /\ \A id \in DOMAIN modules :
                         modules'[id] =
                            IF id \in DOMAIN M /\ ModuleOwner(id) = request'.user
                            THEN [modules[id] EXCEPT !.order = M[id]]
                            ELSE modules[id]
                   /\ UNCHANGED <<courses, nextCourse, nextModule, contents, nextContent,
                                  items, nextItem>>
       /\ request'.view = "content_order" =>
             \A M \in [request'.ids -> 0..MaxOrder] :
                ContentOrderView(request'.user, M) =>
                   /\ DOMAIN contents' = DOMAIN contents
                   /\ \A id \in DOMAIN contents :
                         contents'[id] =
                            IF id \in DOMAIN M /\ ContentOwner(id) = request'.user
                            THEN [contents[id] EXCEPT !.order = M[id]]
                            ELSE contents[id]
                   /\ UNCHANGED <<courses, nextCourse, modules, nextModule, nextContent,
                                  items, nextItem>>]_vars

\* A reorder request naming module 1 alone was just served for the owner of
\* modules 1 and 2 of one course: module 1 carries the submitted order 1 and
\* module 2, not named, the order 1 it had.
C11_Witness ==
    /\ request.view = "module_order" /\ response.saved = "OK"
    /\ request.ids = {1}
    /\ DOMAIN modules = {1, 2}
    /\ modules[1].course = modules[2].course
    /\ ModuleOwner(1) = request.user
    /\ modules[1].order = 1 /\ modules[2].order = 1

\* The rows a reorder request in flight writes: modules or contents.
ReorderRows(r) == IF r.view = "module_order" THEN modules ELSE contents

C13_CascadeStopsAtItems ==
    [][\A u \in Users, pk \in DOMAIN courses :
          (/\ Serves("course_delete", u, {pk})
           /\ courses[pk].owner = u
           /\ "delete_course" \in perms[u]) =>
             /\ response'.status = "302"
             /\ courses' = Drop(courses, {pk})
             /\ DOMAIN modules' = {m \in DOMAIN modules : modules[m].course # pk}
             /\ \A m \in DOMAIN modules' : modules'[m] = modules[m]
             /\ DOMAIN contents' =
                   {k \in DOMAIN contents : modules[contents[k].module].course # pk}
             /\ \A k \in DOMAIN contents' : contents'[k] = contents[k]
             /\ \A m \in DOMAIN modules' : modules'[m].course \in DOMAIN courses'
             /\ \A k \in DOMAIN contents' : contents'[k].module \in DOMAIN modules'
             /\ items' = items
             /\ \A k \in DOMAIN contents \ DOMAIN contents' :
                   /\ ItemOf(k) \in DOMAIN items'
                   /\ \A j \in DOMAIN contents' :
                         <<contents'[j].content_type, contents'[j].object_id>> # ItemOf(k)]_vars

\* A course was just deleted by its owner: an item row stands that no Content
\* row references, and a Content of another course stands with its item.
C13_Witness ==
    /\ request.view = "course_delete" /\ response.status = "302"
    /\ \E pk \in request.ids : pk < nextCourse /\ pk \notin DOMAIN courses
    /\ \E i \in DOMAIN items : \A k \in DOMAIN contents : ItemOf(k) # i
    /\ \E k \in DOMAIN contents : ItemOf(k) \in DOMAIN items

\* C14: between requests every Content row references an item row that
\* exists, no other Content row references that item, and the item's owner is
\* the owner of the course of the Content's module.
C14_ContentItemInvariant ==
    \A k \in DOMAIN contents :
        /\ ItemOf(k) \in DOMAIN items
        /\ \A j \in DOMAIN contents \ {k} : ItemOf(j) # ItemOf(k)
        /\ contents[k].module \in DOMAIN modules
        /\ modules[contents[k].module].course \in DOMAIN courses
        /\ items[ItemOf(k)].owner = ContentOwner(k)

\* An item was just updated through the content url: two Content rows stand, in
\* courses of two owners, each with an item of its own, one of them carrying
\* the updated title.
C14_Witness ==
    /\ request.view = "module_content" /\ response.status = "302"
    /\ DOMAIN contents = {1, 2}
    /\ \A k \in DOMAIN contents :
          /\ contents[k].module \in DOMAIN modules
          /\ modules[contents[k].module].course \in DOMAIN courses
          /\ ItemOf(k) \in DOMAIN items
    /\ ContentOwner(1) # ContentOwner(2)
    /\ \E k \in DOMAIN contents : items[ItemOf(k)].title = "t2"
====
